---------------------------- MODULE Spec2Model ----------------------------
(***************************************************************************)
(* The three pyOpenCL vector-addition scripts of the repository            *)
(*   vector_additon.py      C = A + B          (one binary launch)         *)
(*   vec_adiition_three.py  D = A + B + C      (one ternary launch)        *)
(*   chain_vec_addition.py  X = A+B, Y = X+C, Z = Y+D (three launches)     *)
(* as one state machine: a host thread that runs the script's statements   *)
(* in order, and a device that serves one in-order command queue and runs  *)
(* the work-items of the current launch in any interleaving.               *)
(***************************************************************************)
EXTENDS Integers, Sequences, FiniteSets, TLC

VARIABLES
    script,       \* which of the three scripts runs
    vector_size,  \* the script's vector_size (N)
    pc,           \* index of the host's next statement in Program(script)
    aborted,      \* the script died on an exception of build()
    host,         \* host arrays: name -> [0..N-1 -> value]
    dev,          \* device buffers: name -> [0..len-1 -> value]
    issued,       \* every launch enqueued so far, in enqueue order
    pending,      \* ids (indices in issued) of the launches still in the queue
    running,      \* id of the launch the device executes, 0 when idle
    wi,           \* work-item state of the running launch: gid -> ready/loaded/done
    reg,          \* private register of a work-item that has loaded: gid -> sum
    completed,    \* ids of the launches that have completed
    reads,        \* history: every buffer slot read, and by whom
    writes,       \* history: every buffer slot written, and by whom
    i,            \* loop index of the verification loop
    correct,      \* the verification loop's counter
    wrong,        \* indices the verification loop printed as wrong
    divByZero     \* indices at which the loop divided by an expected value of 0

vars == <<script, vector_size, pc, aborted, host, dev, issued, pending, running,
          wi, reg, completed, reads, writes, i, correct, wrong, divByZero>>

hostVars == <<script, vector_size, pc, aborted, host, i, correct, wrong, divByZero>>
deviceVars == <<issued, pending, running, wi, reg, completed>>
verifyVars == <<i, correct, wrong, divByZero>>

----------------------------------------------------------------------------
(* Bounds of the model *)

\* vector_size ranges over 0..MaxN (the scripts set 1024 and 4096)
MaxN == 2
\* in the kernel harness the grid is count rounded up to a multiple of a
\* work-group size in 1..MaxGroup
MaxGroup == 3
\* significant bits a float keeps (float32 keeps 24)
MantissaBits == 2

\* numpy.random.rand draws from [0,1); the model draws each element from Values
Values == {0, 3}

\* content of memory that was allocated and never written
\* (numpy.empty, cl.Buffer without COPY_HOST_PTR)
Uninit == -1

\* tolerance = 0.001, kept as the denominator of 1/1000
ToleranceDen == 1000

EmptyFn == [x \in {} |-> 0]

Abs(x) == IF x < 0 THEN 0 - x ELSE x

----------------------------------------------------------------------------
(* float addition: the exact sum rounded to MantissaBits significant bits, *)
(* round-to-nearest, ties to even                                          *)

RECURSIVE Ulp(_)
Ulp(x) == IF x < 2^MantissaBits THEN 1 ELSE 2 * Ulp(x \div 2)

Round(x) ==
    LET u == Ulp(x)
        q == x \div u
        r == x % u
    IN  IF 2 * r < u THEN q * u
        ELSE IF 2 * r > u THEN (q + 1) * u
        ELSE IF q % 2 = 0 THEN q * u ELSE (q + 1) * u

FAdd(x, y) == Round(x + y)

\* a[i] + b[i] (+ c[i]): the operands summed left to right
RECURSIVE SumLeft(_)
SumLeft(s) ==
    IF Len(s) = 1 THEN s[1]
    ELSE FAdd(SumLeft(SubSeq(s, 1, Len(s) - 1)), s[Len(s)])

----------------------------------------------------------------------------
(* The scripts *)

Scripts == {"vector_additon", "vec_adiition_three", "chain_vec_addition"}

\* the host input vectors, in the order the script creates them
InputNames(s) ==
    CASE s = "vector_additon"     -> <<"h_a", "h_b">>
      [] s = "vec_adiition_three" -> <<"h_a", "h_b", "h_c">>
      [] s = "chain_vec_addition" -> <<"h_a", "h_b", "h_c", "h_d">>

\* the host result vectors (numpy.empty)
ResultNames(s) ==
    CASE s = "vector_additon"     -> <<"h_c">>
      [] s = "vec_adiition_three" -> <<"h_d">>
      [] s = "chain_vec_addition" -> <<"h_x", "h_y", "h_z">>

\* the device buffer of each host vector
DevOf == [h_a |-> "d_a", h_b |-> "d_b", h_c |-> "d_c", h_d |-> "d_d",
          h_x |-> "d_x", h_y |-> "d_y", h_z |-> "d_z"]

Range(s) == {s[k] : k \in 1..Len(s)}

InputBuffers(s) == {DevOf[h] : h \in Range(InputNames(s))}

\* the launches of the script in program order: kernel arguments
LaunchesStale(s) ==
    CASE s = "vector_additon" ->
            <<[ins |-> <<"d_a", "d_a">>, out |-> "d_c"]>>
      [] s = "vec_adiition_three" ->
            <<[ins |-> <<"d_a", "d_b", "d_c">>, out |-> "d_d"]>>
      [] s = "chain_vec_addition" ->
            <<[ins |-> <<"d_a", "d_b">>, out |-> "d_x"],
              [ins |-> <<"d_a", "d_c">>, out |-> "d_y"],
              [ins |-> <<"d_y", "d_d">>, out |-> "d_z"]>>

LaunchesInPlace(s) ==
    CASE s = "vector_additon" ->
            <<[ins |-> <<"d_a", "d_b">>, out |-> "d_c"]>>
      [] s = "vec_adiition_three" ->
            <<[ins |-> <<"d_a", "d_b", "d_c">>, out |-> "d_d"]>>
      [] s = "chain_vec_addition" ->
            <<[ins |-> <<"d_a", "d_b">>, out |-> "d_x"],
              [ins |-> <<"d_x", "d_c">>, out |-> "d_x"],
              [ins |-> <<"d_x", "d_d">>, out |-> "d_z"]>>

Launches(s) ==
    CASE s = "vector_additon" ->
            <<[ins |-> <<"d_a", "d_b">>, out |-> "d_c"]>>
      [] s = "vec_adiition_three" ->
            <<[ins |-> <<"d_a", "d_b", "d_c">>, out |-> "d_d"]>>
      [] s = "chain_vec_addition" ->
            <<[ins |-> <<"d_a", "d_b">>, out |-> "d_x"],
              [ins |-> <<"d_x", "d_c">>, out |-> "d_y"],
              [ins |-> <<"d_y", "d_d">>, out |-> "d_z"]>>

\* the host array the result is copied into, and the device buffer copied
CopyDst(s) == ResultNames(s)[Len(ResultNames(s))]
CopySrc(s) == DevOf[CopyDst(s)]

\* the statements of the script, in program order
ProgramBuildLate(s) ==
    IF s = "chain_vec_addition"
    THEN <<"context", "queue", "host_vectors", "buffers", "build",
           "launch", "launch", "launch", "finish", "copy", "verify", "print">>
    ELSE <<"context", "queue", "host_vectors", "buffers", "build",
           "launch", "finish", "copy", "verify", "print">>

Program(s) ==
    IF s = "chain_vec_addition"
    THEN <<"context", "queue", "build", "host_vectors", "buffers",
           "launch", "launch", "launch", "finish", "copy", "verify", "print">>
    ELSE <<"context", "queue", "build", "host_vectors", "buffers",
           "launch", "finish", "copy", "verify", "print">>

\* the statement the host executes next
Stmt ==
    IF aborted \/ pc > Len(Program(script)) THEN "halt"
    ELSE Program(script)[pc]

----------------------------------------------------------------------------
(* Initial state: nothing created yet *)

Init ==
    /\ script \in Scripts
    /\ vector_size \in 0..MaxN
    /\ pc = 1
    /\ aborted = FALSE
    /\ host = EmptyFn
    /\ dev = EmptyFn
    /\ issued = <<>>
    /\ pending = <<>>
    /\ running = 0
    /\ wi = EmptyFn
    /\ reg = EmptyFn
    /\ completed = {}
    /\ reads = {}
    /\ writes = {}
    /\ i = 0
    /\ correct = 0
    /\ wrong = {}
    /\ divByZero = {}

Indices == 0..(vector_size - 1)

----------------------------------------------------------------------------
(* Host statements *)

\* context = cl.create_some_context() / cl.Context(devices=devices)
CreateContext ==
    /\ Stmt = "context"
    /\ pc' = pc + 1
    /\ UNCHANGED <<script, vector_size, aborted, host, dev, reads, writes>>
    /\ UNCHANGED deviceVars
    /\ UNCHANGED verifyVars

\* queue = cl.CommandQueue(context): created without properties, so in-order
CreateQueue ==
    /\ Stmt = "queue"
    /\ pc' = pc + 1
    /\ UNCHANGED <<script, vector_size, aborted, host, dev, reads, writes>>
    /\ UNCHANGED deviceVars
    /\ UNCHANGED verifyVars

\* program = cl.Program(context, kernel).build(): a build failure raises,
\* nothing catches it, and the script ends there
BuildProgram ==
    /\ Stmt = "build"
    /\ \E ok \in BOOLEAN :
          IF ok THEN pc' = pc + 1 /\ aborted' = FALSE
                ELSE pc' = pc /\ aborted' = TRUE
    /\ UNCHANGED <<script, vector_size, host, dev, reads, writes>>
    /\ UNCHANGED deviceVars
    /\ UNCHANGED verifyVars

\* h_a = numpy.random.rand(vector_size)...; h_z = numpy.empty(vector_size)
CreateHostVectors ==
    /\ Stmt = "host_vectors"
    /\ \E f \in [Range(InputNames(script)) -> [Indices -> Values]] :
          host' = [h \in Range(InputNames(script)) \cup Range(ResultNames(script)) |->
                      IF h \in Range(InputNames(script)) THEN f[h]
                      ELSE [k \in Indices |-> Uninit]]
    /\ pc' = pc + 1
    /\ UNCHANGED <<script, vector_size, aborted, dev, reads, writes>>
    /\ UNCHANGED deviceVars
    /\ UNCHANGED verifyVars

\* d_a = cl.Buffer(..., READ_ONLY | COPY_HOST_PTR, hostbuf=h_a): a copy of h_a
\* d_z = cl.Buffer(..., WRITE_ONLY, h_z.nbytes): h_z's length, no contents
AllocBuffers ==
    /\ Stmt = "buffers"
    /\ dev' = [d \in {DevOf[h] : h \in DOMAIN host} |->
                  LET h == CHOOSE n \in DOMAIN host : DevOf[n] = d
                  IN  IF d \in InputBuffers(script) THEN host[h]
                      ELSE [k \in DOMAIN host[h] |-> Uninit]]
    /\ pc' = pc + 1
    /\ UNCHANGED <<script, vector_size, aborted, host, reads, writes>>
    /\ UNCHANGED deviceVars
    /\ UNCHANGED verifyVars


\* vadd(queue, h_a.shape, None, <buffers>, vector_size): enqueues the script's
\* next launch and returns at once; the grid is h_a.shape, the count vector_size
GlobalSize == Cardinality(DOMAIN host["h_a"])

Launch ==
    /\ Stmt = "launch"
    /\ LET k == Len(issued) + 1
           l == Launches(script)[k]
       IN  /\ issued' = Append(issued, [ins |-> l.ins, out |-> l.out,
                                        count |-> vector_size, gsize |-> GlobalSize])
           /\ pending' = Append(pending, k)
    /\ pc' = pc + 1
    /\ UNCHANGED <<script, vector_size, aborted, host, dev, reads, writes>>
    /\ UNCHANGED <<running, wi, reg, completed>>
    /\ UNCHANGED verifyVars

\* the queue holds no command and the device executes none
Drained == pending = <<>> /\ running = 0

\* queue.finish() returns when every enqueued command has completed
FinishNoWait == TRUE

FinishReturns == Drained

Finish ==
    /\ Stmt = "finish"
    /\ FinishReturns
    /\ pc' = pc + 1
    /\ UNCHANGED <<script, vector_size, aborted, host, dev, reads, writes>>
    /\ UNCHANGED deviceVars
    /\ UNCHANGED verifyVars

\* cl.enqueue_copy(queue, h_z, d_z): a blocking read enqueued on the same
\* in-order queue, so it runs after every command enqueued before it
EnqueueCopy ==
    /\ Stmt = "copy"
    /\ Drained
    /\ host' = [host EXCEPT ![CopyDst(script)] = dev[CopySrc(script)]]
    /\ reads' = reads \cup {[by |-> 0, gid |-> 0, buf |-> CopySrc(script), idx |-> k] :
                               k \in DOMAIN dev[CopySrc(script)]}
    /\ pc' = pc + 1
    /\ UNCHANGED <<script, vector_size, aborted, dev, writes>>
    /\ UNCHANGED deviceVars
    /\ UNCHANGED verifyVars

\* what a read of a memory cell yields: its value, or anything when the cell
\* was never written
ReadVal(v) == IF v = Uninit THEN Values ELSE {v}

\* expected = h_a[i] + h_b[i] (+ h_c[i] (+ h_d[i])), summed left to right
Expected(k) ==
    SumLeft([j \in 1..Len(InputNames(script)) |-> host[InputNames(script)[j]][k]])

\* relative_error = numpy.absolute((actual - expected) / expected);
\* relative_error < tolerance.  A float division by 0 yields nan or inf
\* (numpy warns, it does not raise), and neither is < tolerance.
WithinTolerance(actual, expected) ==
    IF expected = 0 THEN FALSE
    ELSE Abs(actual - expected) * ToleranceDen < Abs(expected)

\* for i in range(vector_size): one iteration, or the loop's exit
VerifyStep ==
    /\ Stmt = "verify"
    /\ IF i < vector_size
       THEN \E actual \in ReadVal(host[CopyDst(script)][i]) :
               /\ divByZero' = IF Expected(i) = 0 THEN divByZero \cup {i} ELSE divByZero
               /\ IF WithinTolerance(actual, Expected(i))
                  THEN correct' = correct + 1 /\ wrong' = wrong
                  ELSE correct' = correct /\ wrong' = wrong \cup {i}
               /\ i' = i + 1
               /\ pc' = pc
       ELSE /\ pc' = pc + 1
            /\ UNCHANGED verifyVars
    /\ UNCHANGED <<script, vector_size, aborted, host, dev, reads, writes>>
    /\ UNCHANGED deviceVars

\* print(h_d) and the like: the last statement
PrintVectors ==
    /\ Stmt = "print"
    /\ pc' = pc + 1
    /\ UNCHANGED <<script, vector_size, aborted, host, dev, reads, writes>>
    /\ UNCHANGED deviceVars
    /\ UNCHANGED verifyVars

----------------------------------------------------------------------------
(* The kernel *)

\* if (i < count)
InRangeAlways(g, count) == TRUE

InRange(g, count) == g < count

\* the slot a work-item writes: c[i] with i = get_global_id(0)
OutIndexZero(g) == 0

OutIndex(g) == g

\* the value a work-item stores: a[i] + b[i] (+ c[i])
KernelValueFirst(operands) == operands[1]

KernelValue(operands) == SumLeft(operands)

\* every tuple of values the work-item g of launch l can read as its operands
Operands(l, g) ==
    LET cells == [j \in 1..Len(l.ins) |-> dev[l.ins[j]][g]]
    IN  {s \in [1..Len(l.ins) -> Values \cup Range(cells)] :
            \A j \in 1..Len(l.ins) : s[j] \in ReadVal(cells[j])}

----------------------------------------------------------------------------
(* The device *)

\* the queue positions the device may start next: an in-order queue starts
\* its oldest command, and only when the previous one has completed
StartableAny(q) == 1..Len(q)

Startable(q) == IF q = <<>> THEN {} ELSE {1}

Remove(q, p) == SubSeq(q, 1, p - 1) \o SubSeq(q, p + 1, Len(q))

DeviceStart ==
    /\ running = 0
    /\ \E p \in Startable(pending) :
          /\ running' = pending[p]
          /\ pending' = Remove(pending, p)
          /\ wi' = [g \in 0..(issued[pending[p]].gsize - 1) |-> "ready"]
    /\ reg' = EmptyFn
    /\ UNCHANGED <<issued, completed, dev, reads, writes>>
    /\ UNCHANGED hostVars

\* a work-item evaluates the guard and, inside it, reads its operands and adds
WorkItemBegin(g) ==
    /\ running # 0
    /\ g \in DOMAIN wi
    /\ wi[g] = "ready"
    /\ LET l == issued[running]
       IN  IF InRange(g, l.count)
           THEN \E s \in Operands(l, g) :
                   /\ reg' = (g :> KernelValue(s)) @@ reg
                   /\ wi' = [wi EXCEPT ![g] = "loaded"]
                   /\ reads' = reads \cup {[by |-> running, gid |-> g,
                                            buf |-> l.ins[j], idx |-> g] :
                                               j \in 1..Len(l.ins)}
           ELSE /\ wi' = [wi EXCEPT ![g] = "done"]
                /\ UNCHANGED <<reg, reads>>
    /\ UNCHANGED <<issued, pending, running, completed, dev, writes>>
    /\ UNCHANGED hostVars

\* the work-item stores its sum into the output buffer
WorkItemStore(g) ==
    /\ running # 0
    /\ g \in DOMAIN wi
    /\ wi[g] = "loaded"
    /\ LET l == issued[running]
       IN  /\ dev' = [dev EXCEPT ![l.out][OutIndex(g)] = reg[g]]
           /\ writes' = writes \cup {[by |-> running, gid |-> g,
                                      buf |-> l.out, idx |-> OutIndex(g)]}
    /\ wi' = [wi EXCEPT ![g] = "done"]
    /\ UNCHANGED <<issued, pending, running, completed, reg, reads>>
    /\ UNCHANGED hostVars

\* every work-item of the grid has retired
DeviceComplete ==
    /\ running # 0
    /\ \A g \in DOMAIN wi : wi[g] = "done"
    /\ completed' = completed \cup {running}
    /\ running' = 0
    /\ wi' = EmptyFn
    /\ reg' = EmptyFn
    /\ UNCHANGED <<issued, pending, dev, reads, writes>>
    /\ UNCHANGED hostVars

DeviceNext ==
    \/ DeviceStart
    \/ \E g \in DOMAIN wi : WorkItemBegin(g)
    \/ \E g \in DOMAIN wi : WorkItemStore(g)
    \/ DeviceComplete

HostNext ==
    \/ CreateContext
    \/ CreateQueue
    \/ BuildProgram
    \/ CreateHostVectors
    \/ AllocBuffers
    \/ Launch
    \/ Finish
    \/ EnqueueCopy
    \/ VerifyStep
    \/ PrintVectors

Next == HostNext \/ DeviceNext

Spec == Init /\ [][Next]_vars

----------------------------------------------------------------------------
(* The kernel on its own: one launch of any of the scripts' kernels over a *)
(* grid rounded up to a multiple of the work-group size, on buffers as     *)
(* long as the grid.  The host plays no part.                              *)

RoundUp(n, m) == ((n + m - 1) \div m) * m

GridInit ==
    /\ script \in Scripts
    /\ vector_size \in 0..MaxN
    /\ pc = Len(Program(script)) + 1
    /\ aborted = FALSE
    /\ host = EmptyFn
    /\ \E m \in 1..MaxGroup, k \in 1..Len(Launches(script)) :
          LET l == Launches(script)[k]
              g == RoundUp(vector_size, m)
          IN  /\ issued = <<[ins |-> l.ins, out |-> l.out,
                             count |-> vector_size, gsize |-> g]>>
              /\ \E f \in [Range(l.ins) -> [0..(g - 1) -> Values]] :
                    dev = [d \in Range(l.ins) \cup {l.out} |->
                              IF d = l.out THEN [x \in 0..(g - 1) |-> Uninit]
                              ELSE f[d]]
    /\ pending = <<1>>
    /\ running = 0
    /\ wi = EmptyFn
    /\ reg = EmptyFn
    /\ completed = {}
    /\ reads = {}
    /\ writes = {}
    /\ i = 0
    /\ correct = 0
    /\ wrong = {}
    /\ divByZero = {}

GridSpec == GridInit /\ [][DeviceNext]_vars

----------------------------------------------------------------------------
(* Properties *)

Chain == script = "chain_vec_addition"

\* the host has executed the statement (its first occurrence in the program)
Past(stmt) == ~aborted /\ \E k \in 1..(pc - 1) : Program(script)[k] = stmt

\* the script has run to its end
Finished == ~aborted /\ pc > Len(Program(script))

\* the launches that touched a buffer, by the history
Writers(b) == {w.by : w \in {x \in writes : x.buf = b}}
Readers(b) == {r.by : r \in {x \in reads : x.buf = b}}

\* C1: in the chained script, once the three launches, the drain and the
\* read-back are done, h_z[k] = ((h_a[k] + h_b[k]) + h_c[k]) + h_d[k] in float
\* arithmetic for every k < N, whatever the interleaving of the work-items.
C1_ChainResult ==
    (Chain /\ Past("copy")) =>
        \A k \in Indices :
            host["h_z"][k] =
                FAdd(FAdd(FAdd(host["h_a"][k], host["h_b"][k]), host["h_c"][k]),
                     host["h_d"][k])

\* a finished chained run over two elements whose sums differ, one of them
\* a sum the float format had to round (3+3+3 = 9 is stored as 8)
C1_Witness ==
    /\ Chain /\ Finished /\ vector_size >= 2
    /\ host["h_z"][0] # host["h_z"][1]
    /\ \E k \in Indices :
          host["h_z"][k] #
              host["h_a"][k] + host["h_b"][k] + host["h_c"][k] + host["h_d"][k]

\* C2: in the three-input script the read-back result is
\* h_d[k] = (h_a[k] + h_b[k]) + h_c[k], and in the two-input script
\* h_c[k] = h_a[k] + h_b[k], for every k < N.
C2_SingleLaunchResult ==
    Past("copy") =>
        /\ script = "vec_adiition_three" =>
              \A k \in Indices :
                  host["h_d"][k] =
                      FAdd(FAdd(host["h_a"][k], host["h_b"][k]), host["h_c"][k])
        /\ script = "vector_additon" =>
              \A k \in Indices :
                  host["h_c"][k] = FAdd(host["h_a"][k], host["h_b"][k])

\* a finished three-input run over two elements with different sums
C2_Witness ==
    /\ script = "vec_adiition_three" /\ Finished /\ vector_size >= 2
    /\ host["h_d"][0] # host["h_d"][1]
    /\ host["h_d"][1] > 0

\* C3: with a grid of at least count work-items, a work-item whose index is
\* >= count reads and writes nothing: every access is by a work-item below
\* count and to a slot below count, and the output buffer's slots from count
\* on keep their initial content.
C3_NoAccessBeyondCount ==
    /\ \A e \in reads \cup writes :
          e.gid < issued[e.by].count /\ e.idx < issued[e.by].count
    /\ \A g \in DOMAIN wi : g >= issued[running].count => wi[g] # "loaded"
    /\ \A n \in 1..Len(issued) :
          \A k \in DOMAIN dev[issued[n].out] :
              k >= issued[n].count => dev[issued[n].out][k] = Uninit

\* a completed launch whose grid was larger than its count, over at least
\* one element
C3_Witness ==
    /\ completed = {1}
    /\ issued[1].count >= 1
    /\ issued[1].gsize > issued[1].count
    /\ \A k \in 0..(issued[1].count - 1) : dev[issued[1].out][k] # Uninit

\* C4: in the chained script the launches run in enqueue order: a launch runs
\* only when every earlier one has completed, no work-item of launch 2 reads
\* d_x before launch 1 has written all of d_x, and none of launch 3 reads d_y
\* before launch 2 has written all of d_y.
C4_InOrderChain ==
    Chain =>
        /\ running # 0 => \A m \in 1..(running - 1) : m \in completed
        /\ \A n \in completed : \A m \in 1..(n - 1) : m \in completed
        /\ (\E r \in reads : r.by = 2 /\ r.buf = "d_x") =>
              \A k \in Indices :
                  [by |-> 1, gid |-> k, buf |-> "d_x", idx |-> k] \in writes
        /\ (\E r \in reads : r.by = 3 /\ r.buf = "d_y") =>
              \A k \in Indices :
                  [by |-> 2, gid |-> k, buf |-> "d_y", idx |-> k] \in writes

\* launch 2 is reading d_x while launch 3 is already enqueued behind it
C4_Witness ==
    /\ Chain /\ vector_size >= 2
    /\ running = 2
    /\ pending = <<3>>
    /\ \E r \in reads : r.by = 2 /\ r.buf = "d_x"

\* C5: the host is past queue.finish() only when every enqueued launch has
\* completed; it reads a device buffer only after that, and only the final
\* one; until the read-back its result arrays hold nothing.
C5_ReadAfterDrain ==
    /\ Past("finish") =>
          /\ Drained
          /\ Len(issued) = Len(Launches(script))
          /\ completed = 1..Len(issued)
    /\ \A r \in reads :
          r.by = 0 => Past("finish") /\ r.buf = CopySrc(script)
    /\ (~Past("copy") /\ host # EmptyFn) =>
          \A h \in Range(ResultNames(script)) :
              \A k \in Indices : host[h][k] = Uninit

\* the chained script right after its read-back
C5_Witness ==
    /\ Chain /\ vector_size >= 2
    /\ Stmt = "verify" /\ i = 0
    /\ \E r \in reads : r.by = 0

\* C6: when the build fails the script is over: no buffer was allocated, no
\* launch enqueued, nothing read back, nothing verified, and no step is left.
C6_CompileFailureAborts ==
    aborted =>
        /\ dev = EmptyFn
        /\ issued = <<>> /\ pending = <<>> /\ running = 0
        /\ reads = {} /\ writes = {}
        /\ i = 0 /\ correct = 0 /\ wrong = {}
        /\ ~ENABLED Next

\* a run that died in build()
C6_Witness == aborted /\ Program(script)[pc] = "build"

\* C7: an index whose expected sum is 0 is checked by absolute error: it is
\* counted correct when |actual - expected| < tolerance, and the loop does
\* not divide by the zero expected value.
C7_ZeroExpectedAbsolute ==
    \A k \in 0..(i - 1) :
        Expected(k) = 0 =>
            /\ k \notin divByZero
            /\ Abs(host[CopyDst(script)][k] - Expected(k)) * ToleranceDen < 1
                  => k \notin wrong

C9_BufferRoles ==
    Chain =>
        /\ \A w \in writes :
              /\ w.buf \notin InputBuffers(script)
              /\ w.buf = "d_x" => w.by = 1
              /\ w.buf = "d_y" => w.by = 2
              /\ w.buf = "d_z" => w.by = 3
        /\ \A r \in reads :
              /\ r.buf = "d_x" => r.by = 2
              /\ r.buf = "d_y" => r.by = 3
              /\ r.buf = "d_z" => r.by = 0
              /\ r.by = 0 => r.buf = "d_z"
        /\ \A n \in 1..Len(issued) : issued[n].out \notin Range(issued[n].ins)
        /\ (Finished /\ vector_size > 0) =>
              /\ Writers("d_x") = {1} /\ Readers("d_x") = {2}
              /\ Writers("d_y") = {2} /\ Readers("d_y") = {3}
              /\ Writers("d_z") = {3} /\ Readers("d_z") = {0}

\* a finished chained run over at least two elements
C9_Witness ==
    /\ Chain /\ Finished /\ vector_size >= 2
    /\ Readers("d_z") = {0}

\* C10: within a launch a work-item below count writes exactly one slot, the
\* one of its own index, in the launch's output buffer; no two work-items
\* write the same slot; and when the launch completes each output slot holds
\* the sum of its operands, whatever order the work-items ran in.
C10_OneSlotPerWorkItem ==
    /\ \A w \in writes :
          /\ w.idx = w.gid
          /\ w.gid < issued[w.by].count
          /\ w.buf = issued[w.by].out
    /\ \A w1 \in writes : \A w2 \in writes :
          (w1.by = w2.by /\ w1.buf = w2.buf /\ w1.idx = w2.idx) => w1.gid = w2.gid
    /\ \A n \in completed :
          \A k \in 0..(issued[n].count - 1) :
              /\ Cardinality({w \in writes : w.by = n /\ w.gid = k}) = 1
              /\ dev[issued[n].out][k] =
                    SumLeft([j \in 1..Len(issued[n].ins) |-> dev[issued[n].ins[j]][k]])

\* two work-items of the chain's second launch in flight at once, both
\* between their loads and their stores
C10_Witness ==
    /\ Chain /\ vector_size >= 2
    /\ running = 2
    /\ 1 \in completed
    /\ wi[0] = "loaded" /\ wi[1] = "loaded"

=============================================================================
